---- MODULE Spec2Model ----
(***************************************************************************)
(* A model of licenseViewer.py: the parser of one license entry            *)
(* (parseLicenseEntry), the feature filter (filterFeatures), the name      *)
(* simplifier (simplifyFeatureNames), the red/orange selection             *)
(* (getRedLicenses, getOrangeLicenses, removeLicenseMatches) and the       *)
(* pipeline that chains them (writeLicenseInfo).                           *)
(*                                                                         *)
(* A Python string is a sequence of symbols.  A symbol is one character,   *)
(* or one of the fixed words the parser looks for ("Feature:",             *)
(* "license(s)", "used", "by", "of"), none of which contains white space,  *)
(* '-' or '@'.  Python's None is the one-element sequence None, which no   *)
(* string of the model equals.  A dict of the program is a record with an  *)
(* extra field id, the identity of the Python object: lists hold           *)
(* references, and two dicts with equal contents are still two objects.    *)
(* A raised exception is the field raised of a function's result.          *)
(***************************************************************************)
EXTENDS Integers, Sequences, FiniteSets, TLC

\* ---------------------------------------------------------------- bounds
MaxPool == 2
MaxList == 2
MaxCodes == 2
MaxThreshold == 2
MaxLines == 3

\* ------------------------------------------------------ program constants
LICENSE_ORANGE_LIMIT == 1

None == <<"None">>

\* -------------------------------------------------------- string helpers
Range(s) == {s[i] : i \in 1..Len(s)}

\* Python's  p in s  for strings
Contains(s, p) ==
  \E i \in 0..(Len(s) - Len(p)) : SubSeq(s, i + 1, i + Len(p)) = p

\* Python's  s.find(p) + 1, and 0 when p does not occur
FindFirst(s, p) ==
  IF Contains(s, p)
  THEN CHOOSE i \in 1..(Len(s) - Len(p) + 1) :
         /\ SubSeq(s, i, i + Len(p) - 1) = p
         /\ \A j \in 1..(i - 1) : SubSeq(s, j, j + Len(p) - 1) # p
  ELSE 0

Digits == {"0", "1", "2", "3", "4", "5", "6", "7", "8", "9"}

DigitVal(c) ==
  CASE c = "0" -> 0 [] c = "1" -> 1 [] c = "2" -> 2 [] c = "3" -> 3
    [] c = "4" -> 4 [] c = "5" -> 5 [] c = "6" -> 6 [] c = "7" -> 7
    [] c = "8" -> 8 [] c = "9" -> 9

\* int(s) is defined (the counts of the model carry no sign and no blanks):
\* int(None) raises TypeError, int('') and int('x') raise ValueError
IsNumeric(s) == /\ s # None
                /\ Len(s) > 0
                /\ \A i \in 1..Len(s) : s[i] \in Digits

RECURSIVE ToInt(_)
ToInt(s) ==
  IF Len(s) = 0 THEN 0
  ELSE 10 * ToInt(SubSeq(s, 1, Len(s) - 1)) + DigitVal(s[Len(s)])

\* ------------------------------------------------- removeLicenseMatches
RemoveAt(s, i) == SubSeq(s, 1, i - 1) \o SubSeq(s, i + 1, Len(s))

\* origFeatures.index(f) of Python, 1-based; 0 stands for ValueError
IndexOf(origFeatures, f) ==
  IF \E i \in 1..Len(origFeatures) : origFeatures[i] = f
  THEN CHOOSE i \in 1..Len(origFeatures) :
         /\ origFeatures[i] = f
         /\ \A j \in 1..(i - 1) : origFeatures[j] # f
  ELSE 0

\* the loop of removeLicenseMatches over what is left of licenseList2
RECURSIVE RemoveLoop(_, _, _)
RemoveLoop(licenseList1, origFeatures, rest) ==
  IF rest = <<>> THEN [raised |-> FALSE, list1 |-> licenseList1]
  ELSE LET LicenseInd == IndexOf(origFeatures, Head(rest).Feature)
       IN IF LicenseInd = 0
          THEN [raised |-> TRUE, list1 |-> licenseList1]
          ELSE RemoveLoop(RemoveAt(licenseList1, LicenseInd),
                          RemoveAt(origFeatures, LicenseInd),
                          Tail(rest))

\* faulty variant: pops the position after the match
RemoveMatches_offByOne(licenseList1, licenseList2) ==
  IF licenseList2 = <<>> \/ licenseList1 = <<>>
  THEN [raised |-> FALSE, list1 |-> licenseList1]
  ELSE [raised |-> FALSE, list1 |-> Tail(licenseList1)]

removeLicenseMatches(licenseList1, licenseList2) ==
  RemoveLoop(licenseList1,
             [i \in 1..Len(licenseList1) |-> licenseList1[i].Feature],
             licenseList2)

\* ------------------------------------------------------- getRedLicenses
\* int(license['MaxNum']) or int(license['NumUsed']) raises
BadCount(license) == ~IsNumeric(license.MaxNum) \/ ~IsNumeric(license.NumUsed)

IsRed(license) == ToInt(license.MaxNum) = ToInt(license.NumUsed)

\* the selection loop followed by the optional removal, shared by
\* getRedLicenses and getOrangeLicenses; the loop raises at the first
\* record whose counts int() rejects, before anything is removed
\* (selected is the list the loop builds when no int() raises)
SelectAndRemove(licenseDetails, removeMatches, selected) ==
  IF \E i \in 1..Len(licenseDetails) : BadCount(licenseDetails[i])
  THEN [raised |-> TRUE, ret |-> <<>>, details |-> licenseDetails]
  ELSE LET newLicenseList == selected
           rem == IF removeMatches
                  THEN removeLicenseMatches(licenseDetails, newLicenseList)
                  ELSE [raised |-> FALSE, list1 |-> licenseDetails]
       IN [raised |-> rem.raised, ret |-> newLicenseList, details |-> rem.list1]

\* faulty variant: compares the strings, not the integers
IsRedStr(license) == license.MaxNum = license.NumUsed

getRedLicenses_strCompare(licenseDetails, removeMatches) ==
  SelectAndRemove(licenseDetails, removeMatches, SelectSeq(licenseDetails, IsRedStr))

\* faulty variant: the matches are never removed from the pool
getRedLicenses_noRemove(licenseDetails, removeMatches) ==
  SelectAndRemove(licenseDetails, FALSE, SelectSeq(licenseDetails, IsRed))

getRedLicenses(licenseDetails, removeMatches) ==
  SelectAndRemove(licenseDetails, removeMatches, SelectSeq(licenseDetails, IsRed))

\* ---------------------------------------------------- getOrangeLicenses
IsOrange(license, orangeThreshold, triggerSingle) ==
  /\ ToInt(license.MaxNum) - ToInt(license.NumUsed) <= orangeThreshold
  /\ ~(ToInt(license.MaxNum) <= orangeThreshold /\ ~triggerSingle)

\* faulty variant: the single-capacity test is strict
IsOrangeStrict(license, orangeThreshold, triggerSingle) ==
  /\ ToInt(license.MaxNum) - ToInt(license.NumUsed) <= orangeThreshold
  /\ ~(ToInt(license.MaxNum) < orangeThreshold /\ ~triggerSingle)

getOrangeLicenses_strict(licenseDetails, removeMatches, orangeThreshold, triggerSingle) ==
  SelectAndRemove(licenseDetails, removeMatches,
    SelectSeq(licenseDetails,
              LAMBDA l : IsOrangeStrict(l, orangeThreshold, triggerSingle)))

getOrangeLicenses(licenseDetails, removeMatches, orangeThreshold, triggerSingle) ==
  SelectAndRemove(licenseDetails, removeMatches,
    SelectSeq(licenseDetails,
              LAMBDA l : IsOrange(l, orangeThreshold, triggerSingle)))

\* ------------------------------------------------------- filterFeatures
\* a scan  for code in codes: if code in feature: ...; break  finds a match
RECURSIVE ScanMatches(_, _)
ScanMatches(feature, codes) ==
  IF codes = <<>> THEN FALSE
  ELSE IF Contains(feature, Head(codes)) THEN TRUE
       ELSE ScanMatches(feature, Tail(codes))

\* the two scans of filterFeatures for one license: the ignore scan sets
\* the flag, the protect scan that follows clears it
IgnoreThisLicense(license, ignoreFeatureCodes, protectFeatureCodes) ==
  LET afterIgnoreScan == ScanMatches(license.Feature, ignoreFeatureCodes)
  IN IF ScanMatches(license.Feature, protectFeatureCodes)
     THEN FALSE
     ELSE afterIgnoreScan

\* faulty variant: only the first protect code is looked at
filterFeatures_firstProtect(licenseList, ignoreFeatureCodes, protectFeatureCodes) ==
  SelectSeq(licenseList,
    LAMBDA l :
      ~ /\ \E i \in 1..Len(ignoreFeatureCodes) :
              Contains(l.Feature, ignoreFeatureCodes[i])
        /\ ~ /\ Len(protectFeatureCodes) > 0
             /\ Contains(l.Feature, protectFeatureCodes[1]))

filterFeatures(licenseList, ignoreFeatureCodes, protectFeatureCodes) ==
  SelectSeq(licenseList,
    LAMBDA l : ~IgnoreThisLicense(l, ignoreFeatureCodes, protectFeatureCodes))

\* ------------------------------------------------- simplifyFeatureNames
\* re.sub(match, repl, s) for a literal, non-empty match: every
\* non-overlapping occurrence, leftmost first
RECURSIVE ReplaceAll(_, _, _)
ReplaceAll(s, match, repl) ==
  IF Len(s) < Len(match) THEN s
  ELSE IF SubSeq(s, 1, Len(match)) = match
       THEN repl \o ReplaceAll(SubSeq(s, Len(match) + 1, Len(s)), match, repl)
       ELSE <<Head(s)>> \o ReplaceAll(Tail(s), match, repl)

\* re.sub(stripCode, '', s): a strip code is a literal, anchored at the
\* start of the name ('^...') or not
ReSubStrip(s, stripCode) ==
  IF stripCode.anchored
  THEN IF Len(s) >= Len(stripCode.lit) /\ SubSeq(s, 1, Len(stripCode.lit)) = stripCode.lit
       THEN SubSeq(s, Len(stripCode.lit) + 1, Len(s))
       ELSE s
  ELSE ReplaceAll(s, stripCode.lit, <<>>)

RECURSIVE StripAll(_, _)
StripAll(s, stripCodes) ==
  IF stripCodes = <<>> THEN s
  ELSE StripAll(ReSubStrip(s, Head(stripCodes)), Tail(stripCodes))

RECURSIVE AliasAll(_, _)
AliasAll(s, replaceCodes) ==
  IF replaceCodes = <<>> THEN s
  ELSE AliasAll(ReplaceAll(s, Head(replaceCodes)[1], Head(replaceCodes)[2]),
                Tail(replaceCodes))

simplifyFeatureNames(licenseDetails, stripCodes, replaceCodes) ==
  [i \in 1..Len(licenseDetails) |->
     [licenseDetails[i] EXCEPT
        !.Feature = AliasAll(StripAll(@, stripCodes), replaceCodes)]]

\* ---------------------------------------------------- parseLicenseEntry
WhiteSpace == {" ", "\n", "\r", "\t"}

RECURSIVE LStrip(_, _)
LStrip(s, chars) ==
  IF s # <<>> /\ Head(s) \in chars THEN LStrip(Tail(s), chars) ELSE s

RECURSIVE RStrip(_, _)
RStrip(s, chars) ==
  IF s # <<>> /\ s[Len(s)] \in chars
  THEN RStrip(SubSeq(s, 1, Len(s) - 1), chars)
  ELSE s

\* Python's  s.strip(chars)
Strip(s, chars) == RStrip(LStrip(s, chars), chars)

\* Python's  s.split(sep)  for a one-symbol separator: never empty
RECURSIVE SplitOn(_, _)
SplitOn(s, sep) ==
  LET i == FindFirst(s, <<sep>>)
  IN IF i = 0 THEN <<s>>
     ELSE <<SubSeq(s, 1, i - 1)>> \o SplitOn(SubSeq(s, i + 1, Len(s)), sep)

\* Python's  s.split(): the maximal runs without white space
RECURSIVE SplitWs(_)
SplitWs(s) ==
  LET t == LStrip(s, WhiteSpace)
  IN IF t = <<>> THEN <<>>
     ELSE LET n == IF \E i \in 1..Len(t) : t[i] \in WhiteSpace
                   THEN (CHOOSE i \in 1..Len(t) :
                           /\ t[i] \in WhiteSpace
                           /\ \A j \in 1..(i - 1) : t[j] \notin WhiteSpace) - 1
                   ELSE Len(t)
          IN <<SubSeq(t, 1, n)>> \o SplitWs(SubSeq(t, n + 1, Len(t)))

\* '-'.join(name.split('-')[:-1]): the name up to its last '-', '' without one
DropLastSegment(name) ==
  IF "-" \notin Range(name) THEN <<>>
  ELSE LET last == CHOOSE i \in 1..Len(name) :
                     /\ name[i] = "-"
                     /\ \A j \in (i + 1)..Len(name) : name[j] # "-"
       IN SubSeq(name, 1, last - 1)

FeatureMarker == <<"Feature:">>
UsedMarker == <<"license(s)", " ", "used">>
UsedByMarker == <<"license(s)", " ", "used", " ", "by">>

\* licenseLine.split('license(s) used by')[1].split('@')[0].strip()
UserOf(licenseLine) ==
  LET i == FindFirst(licenseLine, UsedByMarker)
      rest == SubSeq(licenseLine, i + Len(UsedByMarker), Len(licenseLine))
      j == FindFirst(rest, UsedByMarker)
      piece == IF j = 0 THEN rest ELSE SubSeq(rest, 1, j - 1)
      k == FindFirst(piece, <<"@">>)
      name == IF k = 0 THEN piece ELSE SubSeq(piece, 1, k - 1)
  IN Strip(name, WhiteSpace)

\* licenseText.strip(' -\n\r').split('\n')
LinesOf(text) == SplitOn(Strip(text, {" ", "-", "\n", "\r"}), "\n")

\* faulty variant: the general usage test comes before the 'used by' test
LineRules_usedFirst(licenseLine, loc) ==
  IF Contains(licenseLine, FeatureMarker)
  THEN LET toks == SplitWs(licenseLine)
       IN IF Len(toks) < 2
          THEN [loc EXCEPT !.raised = TRUE]
          ELSE [loc EXCEPT !.featureName = DropLastSegment(toks[2])]
  ELSE IF Contains(licenseLine, UsedMarker)
  THEN LET toks == SplitWs(licenseLine)
       IN IF Len(toks) < 3
          THEN [loc EXCEPT !.numUsed = toks[1], !.raised = TRUE]
          ELSE [loc EXCEPT !.numUsed = toks[1], !.maxNum = toks[3]]
  ELSE IF Contains(licenseLine, UsedByMarker)
  THEN [loc EXCEPT !.usedBy = Append(@, UserOf(licenseLine))]
  ELSE loc

\* the if/elif chain of the loop body for one line; loc holds the locals
\* featureName, numUsed, maxNum, usedBy; raised is an IndexError
LineRules(licenseLine, loc) ==
  IF Contains(licenseLine, FeatureMarker)
  THEN LET toks == SplitWs(licenseLine)
       IN IF Len(toks) < 2
          THEN [loc EXCEPT !.raised = TRUE]
          ELSE [loc EXCEPT !.featureName = DropLastSegment(toks[2])]
  ELSE IF Contains(licenseLine, UsedByMarker)
  THEN [loc EXCEPT !.usedBy = Append(@, UserOf(licenseLine))]
  ELSE IF Contains(licenseLine, UsedMarker)
  THEN LET toks == SplitWs(licenseLine)
       IN IF Len(toks) < 3
          THEN [loc EXCEPT !.numUsed = toks[1], !.raised = TRUE]
          ELSE [loc EXCEPT !.numUsed = toks[1], !.maxNum = toks[3]]
  ELSE loc

\* list(set(usedBy)): the users once each, in an order the hash decides
SetOrders(usedBy) ==
  {s \in [1..Cardinality(Range(usedBy)) -> Range(usedBy)] : Range(s) = Range(usedBy)}

\* ================================================================ state
VARIABLES
  pc,               \* position of the run
  TRIGGER_SINGLE_LICENSES, \* module-level option
  REMOVE_DUPLICATE_USERS,  \* module-level option
  licenseInfo,      \* writeLicenseInfo: what getLicenseInfo() returned
  licenseDetails,   \* writeLicenseInfo: the pool
  poolAtSplit,      \* the pool as it was handed to getRedLicenses
  redLicenses,      \* writeLicenseInfo: local
  orangeLicenses,   \* writeLicenseInfo: local
  written,          \* the files written, in order
  splitByUsage,     \* writeLicenseInfo: parameter
  call,             \* a direct call of one function: its name and arguments
  ret,              \* the result of the direct call
  licenseText,      \* parseLicenseEntry: parameter
  lineNo,           \* parseLicenseEntry: the line the loop is at
  loc               \* parseLicenseEntry: featureName, numUsed, maxNum, usedBy

wvars == <<licenseInfo, licenseDetails, poolAtSplit, redLicenses,
           orangeLicenses, written, splitByUsage>>
cvars == <<call, ret>>
pvars == <<REMOVE_DUPLICATE_USERS, licenseText, lineNo, loc>>
vars == <<pc, TRIGGER_SINGLE_LICENSES, wvars, cvars, pvars>>

NoCall == [fn |-> "none"]
NoLocals == [featureName |-> None, numUsed |-> None, maxNum |-> None,
             usedBy |-> <<>>, raised |-> FALSE]
WriteIdle == /\ licenseInfo = <<>> /\ licenseDetails = <<>> /\ poolAtSplit = <<>>
             /\ redLicenses = <<>> /\ orangeLicenses = <<>> /\ written = <<>>
             /\ splitByUsage = TRUE
CallIdle == call = NoCall /\ ret = NoCall
ParseIdle == /\ REMOVE_DUPLICATE_USERS = TRUE /\ licenseText = <<>>
             /\ lineNo = 0 /\ loc = NoLocals

MkLicense(id, feature, numUsed, maxNum, users) ==
  [id |-> id, Feature |-> feature, NumUsed |-> numUsed, MaxNum |-> maxNum,
   Users |-> users]

\* the lists of at most n licenses, the i-th with identity i, whose
\* <<Feature, NumUsed, MaxNum, Users>> are drawn from shapes
ListsOf(n, shapes) ==
  UNION { { [i \in 1..k |-> MkLicense(i, f[i][1], f[i][2], f[i][3], f[i][4])] :
              f \in [1..k -> shapes] } : k \in 0..n }

Ids(list) == {list[i].id : i \in 1..Len(list)}
Features(list) == {list[i].Feature : i \in 1..Len(list)}
DistinctFeatures(list) ==
  \A i, j \in 1..Len(list) : i # j => list[i].Feature # list[j].Feature
AllNumeric(list) == \A i \in 1..Len(list) : ~BadCount(list[i])
Occurrences(list, id) == Cardinality({i \in 1..Len(list) : list[i].id = id})

\* ===================================================== writeLicenseInfo
\* the arguments of the one call of writeLicenseInfo, with one-letter
\* stand-ins for the feature codes of the configuration: one ignore code,
\* one protect code (the list of the source is empty; with one code the
\* protect scan acts), the strip code '^p' for '^7_0_0-Clinical-' and one
\* alias pair
WriteIgnoreCodes == << <<"i">> >>
WriteProtectCodes == << <<"k">> >>
WriteStripCodes == << [anchored |-> TRUE, lit |-> <<"p">>] >>
WriteReplaceCodes == << << <<"d">>, <<"e">> >> >>

\* feature names a report can carry
WriteFeatureNames ==
  { <<"a">>, <<"p", "a">>, <<"d">>, <<"i", "b">>, <<"i", "k", "b">> }

\* <<NumUsed, MaxNum>> of a parsed record: full, one left, plenty left,
\* single capacity, full with a leading zero, no usage line, not a number
WriteCounts ==
  { << <<"3">>, <<"3">> >>, << <<"2">>, <<"3">> >>, << <<"0">>, <<"3">> >>,
    << <<"0">>, <<"1">> >>, << <<"0", "3">>, <<"3">> >>,
    << None, None >>, << <<"3">>, <<"x">> >> }

WriteShapes ==
  { <<f, c[1], c[2], <<>> >> : f \in WriteFeatureNames, c \in WriteCounts }

WriteInit ==
  /\ pc = "getLicenseInfo"
  /\ TRIGGER_SINGLE_LICENSES = FALSE
  /\ licenseInfo = <<>>
  /\ licenseDetails = <<>>
  /\ poolAtSplit = <<>>
  /\ redLicenses = <<>>
  /\ orangeLicenses = <<>>
  /\ written = <<>>
  /\ splitByUsage \in BOOLEAN
  /\ CallIdle
  /\ ParseIdle

\* the loop of getLicenseInfo over the chunks of the report: each turn
\* appends the record parseLicenseEntry made of one chunk
GetLicenseInfoAppend ==
  /\ pc = "getLicenseInfo"
  /\ Len(licenseInfo) < MaxPool
  /\ \E sh \in WriteShapes :
        licenseInfo' = Append(licenseInfo,
           MkLicense(Len(licenseInfo) + 1, sh[1], sh[2], sh[3], sh[4]))
  /\ UNCHANGED <<pc, TRIGGER_SINGLE_LICENSES, licenseDetails, poolAtSplit,
                 redLicenses, orangeLicenses, written, splitByUsage, cvars, pvars>>

GetLicenseInfoReturn ==
  /\ pc = "getLicenseInfo"
  /\ pc' = "filter"
  /\ UNCHANGED <<TRIGGER_SINGLE_LICENSES, wvars, cvars, pvars>>

WriteFilter ==
  /\ pc = "filter"
  /\ licenseDetails' = filterFeatures(licenseInfo, WriteIgnoreCodes, WriteProtectCodes)
  /\ pc' = "simplify"
  /\ UNCHANGED <<TRIGGER_SINGLE_LICENSES, licenseInfo, poolAtSplit, redLicenses,
                 orangeLicenses, written, splitByUsage, cvars, pvars>>

WriteSimplify ==
  /\ pc = "simplify"
  /\ licenseDetails' = simplifyFeatureNames(licenseDetails, WriteStripCodes, WriteReplaceCodes)
  /\ poolAtSplit' = licenseDetails'
  /\ pc' = IF splitByUsage THEN "red" ELSE "whole"
  /\ UNCHANGED <<TRIGGER_SINGLE_LICENSES, licenseInfo, redLicenses,
                 orangeLicenses, written, splitByUsage, cvars, pvars>>

WriteWhole ==
  /\ pc = "whole"
  /\ written' = Append(written, [file |-> "txt", licenses |-> licenseDetails])
  /\ pc' = "done"
  /\ UNCHANGED <<TRIGGER_SINGLE_LICENSES, licenseInfo, licenseDetails, poolAtSplit,
                 redLicenses, orangeLicenses, splitByUsage, cvars, pvars>>

WriteRed ==
  /\ pc = "red"
  /\ LET r == getRedLicenses(licenseDetails, TRUE)
     IN /\ licenseDetails' = r.details
        /\ IF r.raised
           THEN /\ pc' = "aborted"
                /\ UNCHANGED <<redLicenses, written>>
           ELSE /\ pc' = "orange"
                /\ redLicenses' = r.ret
                /\ written' = Append(written, [file |-> "red", licenses |-> r.ret])
  /\ UNCHANGED <<TRIGGER_SINGLE_LICENSES, licenseInfo, poolAtSplit,
                 orangeLicenses, splitByUsage, cvars, pvars>>

WriteOrange ==
  /\ pc = "orange"
  /\ LET r == getOrangeLicenses(licenseDetails, TRUE, LICENSE_ORANGE_LIMIT,
                                TRIGGER_SINGLE_LICENSES)
     IN /\ licenseDetails' = r.details
        /\ IF r.raised
           THEN /\ pc' = "aborted"
                /\ UNCHANGED <<orangeLicenses, written>>
           ELSE /\ pc' = "done"
                /\ orangeLicenses' = r.ret
                /\ written' = written \o
                     << [file |-> "orange", licenses |-> r.ret],
                        [file |-> "green", licenses |-> r.details] >>
  /\ UNCHANGED <<TRIGGER_SINGLE_LICENSES, licenseInfo, poolAtSplit,
                 redLicenses, splitByUsage, cvars, pvars>>

WriteNext == GetLicenseInfoAppend \/ GetLicenseInfoReturn \/ WriteFilter \/ WriteSimplify \/ WriteWhole \/ WriteRed \/ WriteOrange

SpecWrite == WriteInit /\ [][WriteNext]_vars

\* ------------------------------------------- claims on writeLicenseInfo
SplitDone == pc = "done" /\ splitByUsage

\* the record with identity id is in exactly one of red, orange and green
\* (green is what is left of the pool), and exactly once there
InExactlyOne(id) ==
  Occurrences(redLicenses, id) + Occurrences(orangeLicenses, id)
    + Occurrences(licenseDetails, id) = 1

\* C1: when the split of a pool with numeric counts is done, every record
\* handed to the split is in exactly one of the red, orange and green lists:
\* none is in two of them and none is lost.
C1_ExhaustiveDisjoint ==
  (SplitDone /\ AllNumeric(poolAtSplit)) =>
     /\ \A id \in Ids(poolAtSplit) : InExactlyOne(id)
     /\ Ids(redLicenses) \cup Ids(orangeLicenses) \cup Ids(licenseDetails)
          = Ids(poolAtSplit)

\* C5: for a pool with pairwise distinct feature names and numeric counts,
\* every fully used record is in the red list and in neither the orange nor
\* the green list, and getOrangeLicenses is handed the pool without the red
\* records.
C5_RedPrecedence ==
  (DistinctFeatures(poolAtSplit) /\ AllNumeric(poolAtSplit)) =>
     /\ pc = "orange" =>
          /\ redLicenses = SelectSeq(poolAtSplit, IsRed)
          /\ licenseDetails = SelectSeq(poolAtSplit, LAMBDA l : ~IsRed(l))
     /\ SplitDone =>
          \A i \in 1..Len(poolAtSplit) :
             IsRed(poolAtSplit[i]) =>
                /\ Occurrences(redLicenses, poolAtSplit[i].id) = 1
                /\ poolAtSplit[i].id \notin Ids(orangeLicenses)
                /\ poolAtSplit[i].id \notin Ids(licenseDetails)

\* a fully used record that also meets the near-limit test went to red only,
\* next to a record that went to orange
C5_Witness ==
  /\ SplitDone
  /\ DistinctFeatures(poolAtSplit)
  /\ orangeLicenses # <<>>
  /\ \E i \in 1..Len(redLicenses) :
        /\ IsOrange(redLicenses[i], LICENSE_ORANGE_LIMIT, TRIGGER_SINGLE_LICENSES)
        /\ redLicenses[i].id \notin Ids(orangeLicenses)

\* C7: a record whose NumUsed or MaxNum is None or not a number is skipped:
\* the run is not aborted, the record is in neither the red nor the orange
\* list, and every other record of the pool is still classified.
C7_BadRecordSkipped ==
  /\ pc # "aborted"
  /\ SplitDone =>
       \A i \in 1..Len(poolAtSplit) :
          IF BadCount(poolAtSplit[i])
          THEN /\ poolAtSplit[i].id \notin Ids(redLicenses)
               /\ poolAtSplit[i].id \notin Ids(orangeLicenses)
          ELSE InExactlyOne(poolAtSplit[i].id)

\* C10: when the parsed records have pairwise distinct feature names, the
\* records that reach getRedLicenses have pairwise distinct feature names.
C10_NamesStayDistinct ==
  (pc = "red" /\ DistinctFeatures(licenseInfo)) => DistinctFeatures(licenseDetails)

\* ================================================ direct calls of one function
\* names and codes of the direct calls
CallNames == { <<"a">>, <<"b">>, <<"a", "b">>, <<"c">> }
CallCodes == { <<"a">>, <<"b">>, <<"c">> }
CodeLists == UNION { [1..k -> CallCodes] : k \in 0..MaxCodes }

\* <<NumUsed, MaxNum>> for getRedLicenses: full, full with a leading zero,
\* one left, single capacity full and free, no usage line
RedCounts ==
  { << <<"3">>, <<"3">> >>, << <<"0", "3">>, <<"3">> >>, << <<"2">>, <<"3">> >>,
    << <<"1">>, <<"1">> >>, << <<"0">>, <<"1">> >>, << None, None >> }
RedShapes ==
  { <<f, c[1], c[2], u>> : f \in { <<"a">>, <<"b">> }, c \in RedCounts,
                           u \in { <<>>, << <<"u">> >> } }

\* <<NumUsed, MaxNum>> for getOrangeLicenses
OrangeCounts ==
  { <<u, m>> : u \in { <<"0">>, <<"1">>, <<"2">> },
               m \in { <<"1">>, <<"2">>, <<"3">> } } \cup { << None, None >> }
OrangeShapes ==
  { <<f, c[1], c[2], <<>> >> : f \in { <<"a">>, <<"b">> }, c \in OrangeCounts }

NameShapes == { <<f, <<"1">>, <<"1">>, <<>> >> : f \in CallNames }
RemoveShapes == { <<f, <<"1">>, <<"1">>, <<>> >> : f \in { <<"a">>, <<"b">>, <<"c">> } }

\* licenseList2 holds dicts of its own (as in test_removeLicenseMatches)
ForeignList(list) == [i \in 1..Len(list) |-> [list[i] EXCEPT !.id = 10 + i]]

RemoveCall ==
  \E l1 \in ListsOf(MaxList, RemoveShapes), l2 \in ListsOf(MaxList + 1, RemoveShapes) :
    /\ call = [fn |-> "removeLicenseMatches", licenseList1 |-> l1,
               licenseList2 |-> ForeignList(l2)]
    /\ TRIGGER_SINGLE_LICENSES = FALSE
FilterCall ==
  \E l \in ListsOf(MaxList, NameShapes), ig \in CodeLists, pr \in CodeLists :
    /\ call = [fn |-> "filterFeatures", licenseList |-> l,
               ignoreFeatureCodes |-> ig, protectFeatureCodes |-> pr]
    /\ TRIGGER_SINGLE_LICENSES = FALSE
RedCall ==
  \E l \in ListsOf(MaxList, RedShapes), rm \in BOOLEAN :
    /\ call = [fn |-> "getRedLicenses", licenseDetails |-> l, removeMatches |-> rm]
    /\ TRIGGER_SINGLE_LICENSES = FALSE
OrangeCall ==
  \E l \in ListsOf(MaxList, OrangeShapes), rm \in BOOLEAN, t \in 0..MaxThreshold :
    /\ call = [fn |-> "getOrangeLicenses", licenseDetails |-> l,
               removeMatches |-> rm, orangeThreshold |-> t]
    /\ TRIGGER_SINGLE_LICENSES \in BOOLEAN

CallInit ==
  /\ pc = "call"
  /\ (RemoveCall \/ FilterCall \/ RedCall \/ OrangeCall)
  /\ ret = NoCall
  /\ WriteIdle
  /\ ParseIdle

Return(result) ==
  /\ ret' = result
  /\ pc' = "returned"
  /\ UNCHANGED <<call, TRIGGER_SINGLE_LICENSES, wvars, pvars>>

CallRemove ==
  /\ pc = "call" /\ call.fn = "removeLicenseMatches"
  /\ Return(removeLicenseMatches(call.licenseList1, call.licenseList2))

CallFilter ==
  /\ pc = "call" /\ call.fn = "filterFeatures"
  /\ Return([raised |-> FALSE,
             ret |-> filterFeatures(call.licenseList, call.ignoreFeatureCodes,
                                    call.protectFeatureCodes)])

CallRed ==
  /\ pc = "call" /\ call.fn = "getRedLicenses"
  /\ Return(getRedLicenses(call.licenseDetails, call.removeMatches))

CallOrange ==
  /\ pc = "call" /\ call.fn = "getOrangeLicenses"
  /\ Return(getOrangeLicenses(call.licenseDetails, call.removeMatches,
                              call.orangeThreshold, TRIGGER_SINGLE_LICENSES))

CallNext == CallRemove \/ CallFilter \/ CallRed \/ CallOrange

SpecCall == CallInit /\ [][CallNext]_vars

Returned(fn) == pc = "returned" /\ call.fn = fn

\* ------------------------------------------------- claims on direct calls
NotNamedIn(list2, l) == l.Feature \notin Features(list2)

\* the precondition of C2 as the claim states it
C2_Pre ==
  /\ Returned("removeLicenseMatches")
  /\ DistinctFeatures(call.licenseList1)
  /\ Features(call.licenseList2) \subseteq Features(call.licenseList1)

\* what C2 says of licenseList1 after the call
C2_Post ==
  ret.list1 = SelectSeq(call.licenseList1,
                        LAMBDA l : NotNamedIn(call.licenseList2, l))

HasCodeOf(codes, l) == \E c \in Range(codes) : Contains(l.Feature, c)

\* C3: a record is in the result of filterFeatures if and only if its name
\* contains no ignore code or contains some protect code, and the result
\* keeps the input order.
C3_FilterIffNotIgnoredOrProtected ==
  Returned("filterFeatures") =>
     ret.ret = SelectSeq(call.licenseList,
                 LAMBDA l : \/ ~HasCodeOf(call.ignoreFeatureCodes, l)
                            \/ HasCodeOf(call.protectFeatureCodes, l))

\* a record whose name holds an ignore code and a protect code that is not
\* the first of its list was retained, and another record was dropped
C3_Witness ==
  /\ Returned("filterFeatures")
  /\ Len(ret.ret) < Len(call.licenseList)
  /\ \E i \in 1..Len(ret.ret) :
        /\ HasCodeOf(call.ignoreFeatureCodes, ret.ret[i])
        /\ HasCodeOf(call.protectFeatureCodes, ret.ret[i])
        /\ ~Contains(ret.ret[i].Feature, call.protectFeatureCodes[1])

\* the record with MaxNum 1 and NumUsed 0
IsSingleFree(l) == ToInt(l.MaxNum) = 1 /\ ToInt(l.NumUsed) = 0

\* C4: getOrangeLicenses returns, in pool order, exactly the records with
\* MaxNum - NumUsed <= threshold, except those with MaxNum <= threshold when
\* TRIGGER_SINGLE_LICENSES is off; with threshold 1 the record MaxNum 1,
\* NumUsed 0 is returned exactly when TRIGGER_SINGLE_LICENSES is on.
C4_OrangeSelection ==
  (Returned("getOrangeLicenses") /\ AllNumeric(call.licenseDetails)) =>
     /\ ~ret.raised
     /\ ret.ret = SelectSeq(call.licenseDetails,
          LAMBDA l :
             /\ ToInt(l.MaxNum) - ToInt(l.NumUsed) <= call.orangeThreshold
             /\ ~(ToInt(l.MaxNum) <= call.orangeThreshold /\ ~TRIGGER_SINGLE_LICENSES))
     /\ call.orangeThreshold = 1 =>
          \A i \in 1..Len(call.licenseDetails) :
             IsSingleFree(call.licenseDetails[i]) =>
                (call.licenseDetails[i].id \in Ids(ret.ret) <=> TRIGGER_SINGLE_LICENSES)

\* threshold 1, the option off: the record MaxNum 1, NumUsed 0 was left out
\* and another record was returned
C4_Witness ==
  /\ Returned("getOrangeLicenses")
  /\ AllNumeric(call.licenseDetails)
  /\ call.orangeThreshold = 1
  /\ ~TRIGGER_SINGLE_LICENSES
  /\ ret.ret # <<>>
  /\ \E i \in 1..Len(call.licenseDetails) :
        /\ IsSingleFree(call.licenseDetails[i])
        /\ call.licenseDetails[i].id \notin Ids(ret.ret)

\* C8: getRedLicenses returns, in pool order, exactly the records whose
\* MaxNum and NumUsed are equal as integers, whatever their Users; without
\* removeMatches the pool is left as it was.
C8_RedSelection ==
  (Returned("getRedLicenses") /\ AllNumeric(call.licenseDetails)) =>
     /\ ~ret.raised
     /\ ret.ret = SelectSeq(call.licenseDetails,
                    LAMBDA l : ToInt(l.MaxNum) = ToInt(l.NumUsed))
     /\ ~call.removeMatches => ret.details = call.licenseDetails

\* without removeMatches, a record with users whose counts are equal as
\* integers but not as strings was returned, and another record was not
C8_Witness ==
  /\ Returned("getRedLicenses")
  /\ AllNumeric(call.licenseDetails)
  /\ ~call.removeMatches
  /\ Len(ret.ret) < Len(call.licenseDetails)
  /\ \E i \in 1..Len(ret.ret) :
        /\ ret.ret[i].Users # <<>>
        /\ ret.ret[i].MaxNum # ret.ret[i].NumUsed

\* ==================================================== parseLicenseEntry
\* lines a chunk of the report can hold
ParseLineSet ==
  { <<"Feature:", " ", "x", "-", "h">>,
    <<"Feature:">>,
    <<"Feature:", " ", "y", "-", "h", " ", "license(s)", " ", "used">>,
    <<"1", " ", "of", " ", "4", " ", "license(s)", " ", "used", ":">>,
    <<"2", " ", "of", " ", "2", " ", "license(s)", " ", "used", ":">>,
    <<"3", " ", "license(s)", " ", "used">>,
    <<"license(s)", " ", "used">>,
    <<"1", " ", "license(s)", " ", "used", " ", "by", " ", "u", "@", "h">>,
    <<"2", " ", "license(s)", " ", "used", " ", "by", " ", "v">>,
    <<"x">>,
    <<>>,
    <<"-", "-">> }

RECURSIVE JoinLines(_)
JoinLines(ls) ==
  IF ls = <<>> THEN <<>>
  ELSE IF Len(ls) = 1 THEN Head(ls)
  ELSE Head(ls) \o <<"\n">> \o JoinLines(Tail(ls))

ParseInit ==
  /\ pc = "loop"
  /\ \E k \in 0..MaxLines : \E ls \in [1..k -> ParseLineSet] :
        licenseText = JoinLines(ls)
  /\ REMOVE_DUPLICATE_USERS \in BOOLEAN
  /\ lineNo = 1
  /\ loc = NoLocals
  /\ TRIGGER_SINGLE_LICENSES = FALSE
  /\ WriteIdle
  /\ CallIdle

\* one turn of the loop: the rules for the line, then the duplicate removal
ParseLine ==
  /\ pc = "loop"
  /\ lineNo <= Len(LinesOf(licenseText))
  /\ LET r == LineRules(LinesOf(licenseText)[lineNo], loc)
     IN IF r.raised
        THEN /\ pc' = "raised"
             /\ loc' = r
             /\ lineNo' = lineNo
        ELSE /\ pc' = pc
             /\ \E users \in (IF REMOVE_DUPLICATE_USERS
                              THEN SetOrders(r.usedBy) ELSE {r.usedBy}) :
                   loc' = [r EXCEPT !.usedBy = users]
             /\ lineNo' = lineNo + 1
  /\ UNCHANGED <<TRIGGER_SINGLE_LICENSES, REMOVE_DUPLICATE_USERS, licenseText,
                 wvars, cvars>>

ParseReturn ==
  /\ pc = "loop"
  /\ lineNo > Len(LinesOf(licenseText))
  /\ pc' = "returned"
  /\ ret' = [Feature |-> loc.featureName, NumUsed |-> loc.numUsed,
             MaxNum |-> loc.maxNum, Users |-> loc.usedBy]
  /\ UNCHANGED <<TRIGGER_SINGLE_LICENSES, call, wvars, pvars>>

ParseNext == ParseLine \/ ParseReturn

SpecParse == ParseInit /\ [][ParseNext]_vars

\* ------------------------------------------- claims on parseLicenseEntry
\* C6: parseLicenseEntry never raises, whatever the chunk: it returns a
\* record, and a field no line supplied is None (Users empty).
C6_NeverRaises ==
  /\ pc # "raised"
  /\ pc = "returned" =>
       LET lines == LinesOf(licenseText)
       IN /\ (\A i \in 1..Len(lines) : ~Contains(lines[i], FeatureMarker))
               => ret.Feature = None
          /\ (\A i \in 1..Len(lines) : ~Contains(lines[i], UsedMarker))
               => (ret.NumUsed = None /\ ret.MaxNum = None /\ ret.Users = <<>>)

\* the rule that handles a line, by the priority of the claim
IsFeatureLine(l) == Contains(l, FeatureMarker)
IsUserLine(l) == ~Contains(l, FeatureMarker) /\ Contains(l, UsedByMarker)
IsUsageLine(l) ==
  /\ ~Contains(l, FeatureMarker)
  /\ ~Contains(l, UsedByMarker)
  /\ Contains(l, UsedMarker)

LineKind(l) ==
  IF IsFeatureLine(l) THEN "feature"
  ELSE IF IsUserLine(l) THEN "user"
  ELSE IF IsUsageLine(l) THEN "usage"
  ELSE "other"

\* the last of the first n lines of the kind, 0 without one
LastLine(lines, n, kind) ==
  IF \E i \in 1..n : LineKind(lines[i]) = kind
  THEN CHOOSE i \in 1..n :
         /\ LineKind(lines[i]) = kind
         /\ \A j \in (i + 1)..n : LineKind(lines[j]) # kind
  ELSE 0

UsersOfLines(ls) ==
  LET userLines == SelectSeq(ls, IsUserLine)
  IN [i \in 1..Len(userLines) |-> UserOf(userLines[i])]

====
